---- MODULE Spec2Model ----
(***************************************************************************)
(* Risk validation and decision engine of the trading bot:                 *)
(*   src/src/risk/risk_manager.py   RiskManager and its eight checks       *)
(*   src/src/main.py                process_message, /emergency-stop       *)
(*   src/src/ai/parser.py           TradingSignal, AISignalParser          *)
(* Money is modelled in whole rupees, fractions as exact quotients         *)
(* [num, den], confidence scores and ratios in percent.                    *)
(***************************************************************************)
EXTENDS Integers, Sequences, FiniteSets, TLC

(***************************************************************************)
(* Python values held by the dict-shaped signals: a key may be missing,    *)
(* hold None, a number or a string.                                        *)
(***************************************************************************)
Missing == [k |-> "missing", n |-> 0, s |-> ""]
None == [k |-> "none", n |-> 0, s |-> ""]
Num(x) == [k |-> "num", n |-> x, s |-> ""]
Str(x) == [k |-> "str", n |-> 0, s |-> x]

\* dict.get(key, default): the default only when the key is missing; a key
\* that is present with value None yields None.
Get(v, default) == IF v.k = "missing" THEN default ELSE v

\* Python truthiness of a value (used by `not entry_price`, `not signal.symbol`).
Truthy(v) ==
    CASE v.k = "num" -> v.n # 0
      [] v.k = "str" -> v.s # ""
      [] OTHER -> FALSE

\* a * b for signal values: defined for two numbers, TypeError otherwise.
CanMul(a, b) == a.k = "num" /\ b.k = "num"

(***************************************************************************)
(* Settings (config/settings.py) and RiskManager.__init__.                 *)
(***************************************************************************)
max_position_size == 100000
max_daily_loss == 5000
\* max_drawdown = 0.15, in percent
max_drawdown == 15
\* min_signal_confidence = 0.7, in percent
min_signal_confidence == 70
\* sector concentration limit 0.3, in percent
sector_limit == 30
\* futures margin 0.15 of the notional, in percent
futures_margin == 15
market_open_time == <<9, 15>>
market_close_time == <<15, 30>>

(***************************************************************************)
(* RiskCheckResult                                                         *)
(***************************************************************************)
\* message keeps the wording that tells the three outcomes apart:
\* "... within limits", "... exceeds limit ...", "... check error: ..."
RiskCheckResult(passed, risk_type, message, severity) ==
    [passed |-> passed, risk_type |-> risk_type, message |-> message,
     severity |-> severity]

Severities == {"LOW", "MEDIUM", "HIGH", "CRITICAL"}

(***************************************************************************)
(* The checks.  Each returns its RiskCheckResult; a check that changes     *)
(* RiskManager fields returns the new field values beside it.              *)
(***************************************************************************)

\* quantity * entry_price with both read by dict.get(key, 0)
position_value_ok(signal) ==
    CanMul(Get(signal.quantity, Num(0)), Get(signal.entry_price, Num(0)))

position_value(signal) ==
    Get(signal.quantity, Num(0)).n * Get(signal.entry_price, Num(0)).n

\* variant: the limit itself is refused
check_position_size_inclusive(signal) ==
    IF ~position_value_ok(signal)
    THEN RiskCheckResult(FALSE, "POSITION_SIZE_LIMIT", "check error", "MEDIUM")
    ELSE IF position_value(signal) >= max_position_size
         THEN RiskCheckResult(FALSE, "POSITION_SIZE_LIMIT", "exceeds limit", "HIGH")
         ELSE RiskCheckResult(TRUE, "POSITION_SIZE_LIMIT", "within limits", "LOW")

check_position_size(signal) ==
    IF ~position_value_ok(signal)
    THEN \* TypeError caught by the check's own except clause
         RiskCheckResult(FALSE, "POSITION_SIZE_LIMIT", "check error", "MEDIUM")
    ELSE IF position_value(signal) > max_position_size
         THEN RiskCheckResult(FALSE, "POSITION_SIZE_LIMIT", "exceeds limit", "HIGH")
         ELSE RiskCheckResult(TRUE, "POSITION_SIZE_LIMIT", "within limits", "LOW")

\* variant: the day's sum is added to the stored daily_pnl
check_daily_loss_limit_accumulate(db, old_daily_pnl) ==
    IF ~db.ok
    THEN [result |-> RiskCheckResult(FALSE, "DAILY_LOSS_LIMIT", "check error", "MEDIUM"),
          daily_pnl |-> old_daily_pnl]
    ELSE LET total == old_daily_pnl + db.pnl
         IN [result |->
               IF (IF total < 0 THEN -total ELSE total) > max_daily_loss /\ total < 0
               THEN RiskCheckResult(FALSE, "DAILY_LOSS_LIMIT", "exceeds limit", "CRITICAL")
               ELSE RiskCheckResult(TRUE, "DAILY_LOSS_LIMIT", "within limits", "LOW"),
             daily_pnl |-> total]

\* db: [ok |-> FALSE] when the query raises, else [ok |-> TRUE, pnl |-> sum]
check_daily_loss_limit(db, old_daily_pnl) ==
    IF ~db.ok
    THEN [result |-> RiskCheckResult(FALSE, "DAILY_LOSS_LIMIT", "check error", "MEDIUM"),
          daily_pnl |-> old_daily_pnl]
    ELSE [result |->
            IF (IF db.pnl < 0 THEN -db.pnl ELSE db.pnl) > max_daily_loss /\ db.pnl < 0
            THEN RiskCheckResult(FALSE, "DAILY_LOSS_LIMIT", "exceeds limit", "CRITICAL")
            ELSE RiskCheckResult(TRUE, "DAILY_LOSS_LIMIT", "within limits", "LOW"),
          daily_pnl |-> db.pnl]

\* variant: the peak is overwritten with the current value
check_drawdown_limit_nomax(portfolio, peak, mdc) ==
    LET current == portfolio.total_value
        new_peak == current
        dd == IF new_peak > 0
              THEN [num |-> new_peak - current, den |-> new_peak]
              ELSE [num |-> 0, den |-> 1]
    IN [result |->
          IF dd.num * 100 > max_drawdown * dd.den
          THEN RiskCheckResult(FALSE, "DRAWDOWN_LIMIT", "exceeds limit", "CRITICAL")
          ELSE RiskCheckResult(TRUE, "DRAWDOWN_LIMIT", "within limits", "LOW"),
        portfolio_peak |-> new_peak,
        max_drawdown_current |-> IF new_peak > 0 THEN dd ELSE mdc,
        current_drawdown |-> dd]

\* variant: the drawdown is computed before the peak is updated
check_drawdown_limit_stale(portfolio, peak, mdc) ==
    LET current == portfolio.total_value
        new_peak == IF current > peak THEN current ELSE peak
        dd == IF peak > 0
              THEN [num |-> peak - current, den |-> peak]
              ELSE [num |-> 0, den |-> 1]
    IN [result |->
          IF dd.num * 100 > max_drawdown * dd.den
          THEN RiskCheckResult(FALSE, "DRAWDOWN_LIMIT", "exceeds limit", "CRITICAL")
          ELSE RiskCheckResult(TRUE, "DRAWDOWN_LIMIT", "within limits", "LOW"),
        portfolio_peak |-> new_peak,
        max_drawdown_current |-> IF peak > 0 THEN dd ELSE mdc,
        current_drawdown |-> dd]

\* variant: a drawdown equal to the limit is refused
check_drawdown_limit_inclusive(portfolio, peak, mdc) ==
    LET current == portfolio.total_value
        new_peak == IF current > peak THEN current ELSE peak
        dd == IF new_peak > 0
              THEN [num |-> new_peak - current, den |-> new_peak]
              ELSE [num |-> 0, den |-> 1]
    IN [result |->
          IF dd.num * 100 >= max_drawdown * dd.den /\ dd.num > 0
          THEN RiskCheckResult(FALSE, "DRAWDOWN_LIMIT", "exceeds limit", "CRITICAL")
          ELSE RiskCheckResult(TRUE, "DRAWDOWN_LIMIT", "within limits", "LOW"),
        portfolio_peak |-> new_peak,
        max_drawdown_current |-> IF new_peak > 0 THEN dd ELSE mdc,
        current_drawdown |-> dd]

check_drawdown_limit(portfolio, peak, mdc) ==
    LET current == portfolio.total_value
        new_peak == IF current > peak THEN current ELSE peak
        dd == IF new_peak > 0
              THEN [num |-> new_peak - current, den |-> new_peak]
              ELSE [num |-> 0, den |-> 1]
    IN [result |->
          IF dd.num * 100 > max_drawdown * dd.den
          THEN RiskCheckResult(FALSE, "DRAWDOWN_LIMIT", "exceeds limit", "CRITICAL")
          ELSE RiskCheckResult(TRUE, "DRAWDOWN_LIMIT", "within limits", "LOW"),
        portfolio_peak |-> new_peak,
        max_drawdown_current |-> IF new_peak > 0 THEN dd ELSE mdc,
        current_drawdown |-> dd]

\* variant: futures are charged the full notional
_calculate_required_margin_full(signal) ==
    [num |-> Get(signal.quantity, Num(0)).n * Get(signal.entry_price, Num(0)).n,
     den |-> 1]

_calculate_required_margin(signal) ==
    LET quantity == Get(signal.quantity, Num(0))
        price == Get(signal.entry_price, Num(0))
        instrument_type == Get(signal.instrument_type, Str("EQUITY"))
    IN IF instrument_type = Str("FUTURES")
       THEN [num |-> quantity.n * price.n * futures_margin, den |-> 100]
       ELSE [num |-> quantity.n * price.n, den |-> 1]

check_margin_requirements(signal, portfolio) ==
    IF ~position_value_ok(signal)
    THEN RiskCheckResult(FALSE, "MARGIN_REQUIREMENT", "check error", "MEDIUM")
    ELSE LET required == _calculate_required_margin(signal)
         IN IF required.num > portfolio.available_margin * required.den
            THEN RiskCheckResult(FALSE, "MARGIN_REQUIREMENT", "exceeds limit", "HIGH")
            ELSE RiskCheckResult(TRUE, "MARGIN_REQUIREMENT", "within limits", "LOW")

\* Python's tuple comparison a <= b on (hour, minute)
TupleLE(a, b) == a[1] < b[1] \/ (a[1] = b[1] /\ a[2] <= b[2])

check_market_hours(now) ==
    IF now.weekday >= 5
    THEN RiskCheckResult(FALSE, "MARKET_HOURS", "market closed", "MEDIUM")
    ELSE IF ~(TupleLE(market_open_time, <<now.hour, now.minute>>)
              /\ TupleLE(<<now.hour, now.minute>>, market_close_time))
         THEN RiskCheckResult(FALSE, "MARKET_HOURS", "market closed", "MEDIUM")
         ELSE RiskCheckResult(TRUE, "MARKET_HOURS", "within limits", "LOW")

check_circuit_breakers(symbol) ==
    RiskCheckResult(TRUE, "CIRCUIT_BREAKER", "within limits", "LOW")

\* str.upper() on the symbols of the model
Upper(s) ==
    CASE s = "tcs" -> "TCS"
      [] s = "infy" -> "INFY"
      [] OTHER -> s

_get_sector(symbol) ==
    LET u == Upper(symbol)
    IN CASE u = "RELIANCE" -> "Energy"
         [] u = "TCS" -> "IT"
         [] u = "HDFCBANK" -> "Banking"
         [] u = "INFY" -> "IT"
         [] u = "HDFC" -> "Financial Services"
         [] u = "ICICIBANK" -> "Banking"
         [] u = "KOTAKBANK" -> "Banking"
         [] u = "SBIN" -> "Banking"
         [] u = "BHARTIARTL" -> "Telecom"
         [] u = "ITC" -> "FMCG"
         [] OTHER -> "Others"

RECURSIVE sector_exposure(_, _)
sector_exposure(positions, sector) ==
    IF positions = <<>> THEN 0
    ELSE (IF _get_sector(Head(positions).symbol) = sector
          THEN Head(positions).value ELSE 0)
         + sector_exposure(Tail(positions), sector)

check_correlation_risk(signal, portfolio) ==
    IF signal.symbol.k # "str"
    THEN \* KeyError (no symbol) or AttributeError (None.upper()), caught
         RiskCheckResult(FALSE, "CORRELATION_RISK", "check error", "MEDIUM")
    ELSE LET sector == _get_sector(signal.symbol.s)
             exposure == sector_exposure(portfolio.positions, sector)
             total == portfolio.total_value
         IN IF total > 0 /\ exposure * 100 > sector_limit * total
            THEN RiskCheckResult(FALSE, "CORRELATION_RISK", "exceeds limit", "MEDIUM")
            ELSE RiskCheckResult(TRUE, "CORRELATION_RISK", "within limits", "LOW")

check_price_anomalies(signal) ==
    IF signal.symbol.k = "missing"
    THEN \* KeyError on signal["symbol"], caught
         RiskCheckResult(FALSE, "PRICE_ANOMALY", "check error", "MEDIUM")
    ELSE IF ~Truthy(Get(signal.entry_price, Num(0)))
         THEN RiskCheckResult(TRUE, "PRICE_ANOMALY", "no entry price", "LOW")
         ELSE RiskCheckResult(TRUE, "PRICE_ANOMALY", "appears normal", "LOW")

(***************************************************************************)
(* Running one check as a coroutine.  self is the RiskManager's fields,    *)
(* env what the outside world answers during the call: the trade ledger    *)
(* query (db), the wall clock (now), the event store (store_ok).           *)
(***************************************************************************)
run_check(kind, signal, portfolio, self, env) ==
    CASE kind = "position_size" ->
            [result |-> check_position_size(signal), self |-> self]
      [] kind = "daily_loss" ->
            LET r == check_daily_loss_limit(env.db, self.daily_pnl)
            IN [result |-> r.result,
                self |-> [self EXCEPT !.daily_pnl = r.daily_pnl]]
      [] kind = "drawdown" ->
            LET r == check_drawdown_limit(portfolio, self.portfolio_peak,
                                          self.max_drawdown_current)
            IN [result |-> r.result,
                self |-> [self EXCEPT !.portfolio_peak = r.portfolio_peak,
                                      !.max_drawdown_current = r.max_drawdown_current]]
      [] kind = "margin" ->
            [result |-> check_margin_requirements(signal, portfolio), self |-> self]
      [] kind = "market_hours" ->
            [result |-> check_market_hours(env.now), self |-> self]
      [] kind = "circuit_breaker" ->
            [result |-> check_circuit_breakers(signal.symbol), self |-> self]
      [] kind = "correlation" ->
            [result |-> check_correlation_risk(signal, portfolio), self |-> self]
      [] kind = "price_anomaly" ->
            [result |-> check_price_anomalies(signal), self |-> self]

(***************************************************************************)
(* RiskManager.validate_trade                                              *)
(***************************************************************************)
\* An entry of the `checks` list: a coroutine object not yet started, or the
\* RiskCheckResult that an `await` inside the list display already produced.
Coro(kind) == [awaitable |-> TRUE, kind |-> kind,
               result |-> RiskCheckResult(TRUE, "", "within limits", "LOW")]
Value(kind, r) == [awaitable |-> FALSE, kind |-> kind, result |-> r]

\* lines 76-85: five coroutine objects, three awaited results
checks_list(signal, portfolio) ==
    << Coro("position_size"), Coro("daily_loss"), Coro("drawdown"),
       Coro("margin"), Coro("market_hours"),
       Value("circuit_breaker", check_circuit_breakers(signal.symbol)),
       Value("correlation", check_correlation_risk(signal, portfolio)),
       Value("price_anomaly", check_price_anomalies(signal)) >>

SetMin(S) == CHOOSE x \in S : \A y \in S : x <= y

\* asyncio.gather(*checks): every argument goes through ensure_future in
\* order; a coroutine becomes a scheduled task, anything that is not awaitable
\* raises TypeError out of gather, leaving the tasks made so far scheduled.
\* variant: a gather that takes a finished result as it takes a coroutine
gather_lenient(checks) == [raised |-> FALSE, scheduled |-> checks]

gather(checks) ==
    LET bad == {i \in DOMAIN checks : ~checks[i].awaitable}
    IN IF bad # {}
       THEN [raised |-> TRUE, scheduled |-> SubSeq(checks, 1, SetMin(bad) - 1)]
       ELSE [raised |-> FALSE, scheduled |-> checks]

\* the gathered coroutines run to completion one after the other
RECURSIVE run_all(_, _, _, _, _)
run_all(kinds, signal, portfolio, self, env) ==
    IF kinds = <<>> THEN [results |-> <<>>, self |-> self]
    ELSE LET r == run_check(Head(kinds), signal, portfolio, self, env)
             rest == run_all(Tail(kinds), signal, portfolio, r.self, env)
         IN [results |-> <<r.result>> \o rest.results, self |-> rest.self]

\* lines 90-101: an exception object among gather's results becomes the
\* synthetic ORDER_FAILURE result.  Every check catches Exception itself and
\* returns its own result, so run_check never hands an exception object on.
synthetic_failure == RiskCheckResult(FALSE, "ORDER_FAILURE", "Risk check error", "HIGH")

RECURSIVE collect(_)
collect(results) ==
    IF results = <<>> THEN <<>>
    ELSE <<IF Head(results).risk_type = "Exception" THEN synthetic_failure
           ELSE Head(results)>> \o collect(Tail(results))

\* line 104: failed_checks
failed_checks(risk_results) == SelectSeq(risk_results, LAMBDA r : ~r.passed)

\* _log_risk_events: one RiskEvent per failed check, all or nothing (one
\* session, one commit); an error is logged and swallowed.
RiskEvent(r) == [event_type |-> r.risk_type, severity |-> r.severity, resolved |-> FALSE]

RECURSIVE MapEvents(_)
MapEvents(rs) == IF rs = <<>> THEN <<>> ELSE <<RiskEvent(Head(rs))>> \o MapEvents(Tail(rs))

_log_risk_events(failed, store_ok) == IF store_ok THEN MapEvents(failed) ELSE <<>>

validate_trade(signal, portfolio, self, env) ==
    IF signal.symbol.k = "missing"
    THEN \* line 82: signal["symbol"] raises KeyError while the list is built
         [raised |-> TRUE, exc |-> "KeyError", results |-> <<>>, ran |-> {},
          scheduled |-> <<>>, self |-> self, events |-> <<>>]
    ELSE LET checks == checks_list(signal, portfolio)
             inline == {checks[i].kind : i \in {j \in DOMAIN checks : ~checks[j].awaitable}}
             g == gather(checks)
             kinds == [i \in DOMAIN g.scheduled |-> g.scheduled[i].kind]
         IN IF g.raised
            THEN [raised |-> TRUE, exc |-> "TypeError", results |-> <<>>,
                  ran |-> inline, scheduled |-> kinds, self |-> self, events |-> <<>>]
            ELSE LET done == run_all(kinds, signal, portfolio, self, env)
                     risk_results == collect(done.results)
                     failed == failed_checks(risk_results)
                 IN [raised |-> FALSE, exc |-> "", results |-> risk_results,
                     ran |-> inline \cup {kinds[i] : i \in DOMAIN kinds},
                     scheduled |-> <<>>, self |-> done.self,
                     events |-> _log_risk_events(failed, env.store_ok)]

(***************************************************************************)
(* The decision of the callers (main.py process_message lines 157-162,     *)
(* agent_integration.py _assess_order_risk lines 223-226).                 *)
(***************************************************************************)
\* variant: only CRITICAL blocks
critical_risks_only_critical(risk_results) ==
    SelectSeq(risk_results, LAMBDA r : r.severity = "CRITICAL" /\ ~r.passed)

critical_risks(risk_results) ==
    SelectSeq(risk_results,
              LAMBDA r : r.severity \in {"HIGH", "CRITICAL"} /\ ~r.passed)

approved(risk_results) == critical_risks(risk_results) = <<>>

\* process_message: the order goes out only when validate_trade returned and
\* left no critical risk; an exception anywhere ends in the except clause.
\* variant: the except clause falls through to the execution
should_execute_despite_raise(out) == approved(out.results)

should_execute(out) == ~out.raised /\ approved(out.results)

(***************************************************************************)
(* AISignalParser.parse_message: the primary model's answer, then the      *)
(* fallback models while the answer is missing or below the threshold.     *)
(***************************************************************************)
NoSignal == [signal_type |-> "", confidence_score |-> 0, symbol |-> Missing,
             quantity |-> Missing, entry_price |-> Missing,
             instrument_type |-> Missing]

RECURSIVE try_fallbacks(_, _)
try_fallbacks(signal, answers) ==
    IF answers = <<>> THEN signal
    ELSE LET fb == Head(answers)
             better == IF fb # NoSignal
                          /\ fb.confidence_score >
                               (IF signal # NoSignal THEN signal.confidence_score ELSE 0)
                       THEN fb ELSE signal
         IN IF better # NoSignal /\ better.confidence_score >= min_signal_confidence
            THEN better
            ELSE try_fallbacks(better, Tail(answers))

\* variant: the best answer is returned whatever its confidence
parse_message_nogate(answers) ==
    LET primary == Head(answers)
    IN IF primary = NoSignal \/ primary.confidence_score < min_signal_confidence
       THEN try_fallbacks(primary, Tail(answers))
       ELSE primary

parse_message(answers) ==
    LET primary == Head(answers)
        signal == IF primary = NoSignal \/ primary.confidence_score < min_signal_confidence
                  THEN try_fallbacks(primary, Tail(answers))
                  ELSE primary
    IN IF signal # NoSignal /\ signal.confidence_score >= min_signal_confidence
       THEN signal ELSE NoSignal

(***************************************************************************)
(* Bounds of the model and the inputs the operations are given.            *)
(***************************************************************************)
\* validate_trade calls whose scheduled checks may be outstanding at once
MaxInFlight == 1
\* risk events the store takes before its commits fail
MaxEvents == 1
\* execute_signal calls followed
MaxOrders == 1
\* longest result list handed to the decision rule on its own
MaxResults == 2
\* validate_trade calls made before the event loop has run their checks
MaxConcurrent == 2
\* process_telegram_message calls of one TradingAgentIntegration
MaxCalls == 2
\* Telegram messages that arrive
MaxMessages == 3

Signal(symbol, quantity, entry_price) ==
    [symbol |-> symbol, quantity |-> quantity, entry_price |-> entry_price,
     instrument_type |-> Str("EQUITY"), signal_type |-> "BUY", confidence_score |-> 90]

\* signals handed to RiskManager.validate_trade directly
Signals ==
    { Signal(Str("TCS"), Num(1000), None), Signal(Str("TCS"), Num(1000), Num(50)),
      Signal(Str("TCS"), Num(1000), Num(150)), Signal(None, Num(1000), Num(50)),
      Signal(Missing, Num(1000), Num(50)) }

\* answers of a language model: nothing, or a TradingSignal.to_dict()
Answer(signal_type, entry_price, confidence_score) ==
    [Signal(Str("TCS"), Num(1000), entry_price) EXCEPT
        !.signal_type = signal_type, !.confidence_score = confidence_score]

ModelAnswers ==
    { NoSignal, Answer("BUY", Num(50), 90), Answer("BUY", Num(150), 90),
      Answer("BUY", Num(50), 50), Answer("HOLD", None, 90) }

Portfolios ==
    {[total_value |-> v, available_margin |-> 60000, positions |-> <<>>] :
        v \in {0, 80000, 100000}}

\* answers of the trade ledger query, readings of the clock, and whether the
\* event store commits
Dbs == {[ok |-> FALSE, pnl |-> 0], [ok |-> TRUE, pnl |-> 0], [ok |-> TRUE, pnl |-> -6000]}
Clocks == {[weekday |-> 0, hour |-> 10, minute |-> 0],
           [weekday |-> 5, hour |-> 10, minute |-> 0]}
Env(db, now, store_ok) == [db |-> db, now |-> now, store_ok |-> store_ok]
Env0 == Env([ok |-> TRUE, pnl |-> 0], [weekday |-> 0, hour |-> 10, minute |-> 0], TRUE)
Envs == {Env(d, n, s) : d \in Dbs, n \in Clocks, s \in BOOLEAN}

\* the answers a check task can tell apart: only the daily-loss check queries
\* the ledger, only the market-hours check reads the clock
EnvsOf(kind) ==
    CASE kind = "daily_loss" -> {Env(d, Env0.now, TRUE) : d \in Dbs}
      [] kind = "market_hours" -> {Env(Env0.db, n, TRUE) : n \in Clocks}
      [] OTHER -> {Env0}

(***************************************************************************)
(* TradingAgentIntegration (agent_integration.py): the risk assessment of  *)
(* an analysis. The integration owns a RiskManager of its own; a          *)
(* validate_trade call on it is evaluated on that instance's initial      *)
(* state, which none of the processing_stats counters reads.              *)
(***************************************************************************)
\* the 0.7 of lines 84 and 158, in percent
agent_confidence == 70

AgentActions ==
    {"place_order", "exit_position", "modify_order", "cancel_order", "no_action", "hold"}

AgentAnalyses ==
    {[action |-> a, confidence |-> c] : a \in AgentActions, c \in {50, 70, 90}}

RiskManagerInit ==
    [emergency_stop_active |-> FALSE, daily_pnl |-> 0,
     max_drawdown_current |-> [num |-> 0, den |-> 1], portfolio_peak |-> 0]

\* lines 200-257: approved when validate_trade returned no failed HIGH or
\* CRITICAL result; an exception ends in the except clause: not approved
_assess_order_risk(signal, portfolio) ==
    LET out == validate_trade(signal, portfolio, RiskManagerInit, Env0)
    IN ~out.raised /\ critical_risks(out.results) = <<>>

\* lines 259-297: positions is what get_positions answered
_assess_exit_risk(positions) == positions \in {"found", "failed"}

_assess_risk(analysis, positions, signal, portfolio) ==
    IF analysis.action = "no_action" \/ analysis.confidence < agent_confidence
    THEN FALSE
    ELSE IF analysis.action = "place_order" THEN _assess_order_risk(signal, portfolio)
    ELSE IF analysis.action = "exit_position" THEN _assess_exit_risk(positions)
    ELSE analysis.action \in {"modify_order", "cancel_order"}

(***************************************************************************)
(* TelegramCollector (collector.py): the hand-off of messages through the  *)
(* Redis list "message_queue". A message is its message_id (numbered in    *)
(* the order of the _queue_message calls) and its message_date.            *)
(***************************************************************************)
MessageData(id) == [message_id |-> id, message_date |-> "isoformat"]

\* json.dumps(message_data, default=str): the dictionary holds strings and
\* numbers only, so the text decodes to an equal dictionary
json_dumps(message_data) == [text |-> message_data]

json_loads(message_json) == message_json.text

\* redis LPUSH: the value goes to the head of the list
lpush(list, value) == <<value>> \o list

\* variant: the value is taken from the head of the list
rpop_head(list) ==
    IF list = <<>> THEN [value |-> None, rest |-> list]
    ELSE [value |-> Head(list), rest |-> Tail(list)]

\* redis RPOP: the value at the tail of the list is removed and returned,
\* None when the list is empty
rpop(list) ==
    IF list = <<>> THEN [value |-> None, rest |-> list]
    ELSE [value |-> list[Len(list)], rest |-> SubSeq(list, 1, Len(list) - 1)]

Min(a, b) == IF a <= b THEN a ELSE b

\* the limit message_processing_loop passes (main.py line 120)
loop_limit == 10

\* limits of get_pending_messages calls made directly (10 is the default)
PendingLimits == {1, 10}

(***************************************************************************)
(* main.py, message_processing_loop and process_message: what becomes of   *)
(* the rest of the batch once process_message has ended.                   *)
(***************************************************************************)
\* variant: the exception leaves process_message and reaches the loop's
\* except clause (line 128), which abandons the batch
process_message_returns_unless_raised(out) == ~out.raised

\* process_message lines 135 and 173-174: the whole body is inside try /
\* except Exception, so the call returns whatever happened inside
process_message_returns(out) == TRUE

process_message_outcome(signal, out) ==
    IF signal = NoSignal THEN "no_signal"
    ELSE IF out.raised THEN "raised"
    ELSE IF should_execute(out) THEN "executed"
    ELSE "rejected"

(***************************************************************************)
(* ZerodhaTrader.place_order (zerodha_client.py). The order id is None, a  *)
(* simulated "PAPER_<timestamp>" or the id the broker returned; kite_called *)
(* tells whether self.kite.place_order was reached; kite_ok is whether the *)
(* broker accepted the order (a raise there ends in the except: None).     *)
(***************************************************************************)
\* variant: the live-trading flag is looked at before the paper flag
place_order_live_first(is_connected, enable_paper_trading, enable_live_trading, kite_ok) ==
    IF ~is_connected THEN [order_id |-> None, kite_called |-> FALSE]
    ELSE IF enable_live_trading
    THEN [order_id |-> IF kite_ok THEN Str("KITE_ORDER_ID") ELSE None, kite_called |-> TRUE]
    ELSE IF enable_paper_trading
    THEN [order_id |-> Str("PAPER_"), kite_called |-> FALSE]
    ELSE [order_id |-> None, kite_called |-> FALSE]

place_order(is_connected, enable_paper_trading, enable_live_trading, kite_ok) ==
    IF ~is_connected THEN [order_id |-> None, kite_called |-> FALSE]
    ELSE IF enable_paper_trading
    THEN [order_id |-> Str("PAPER_"), kite_called |-> FALSE]
    ELSE IF ~enable_live_trading
    THEN [order_id |-> None, kite_called |-> FALSE]
    ELSE [order_id |-> IF kite_ok THEN Str("KITE_ORDER_ID") ELSE None, kite_called |-> TRUE]

(***************************************************************************)
(* State                                                                   *)
(***************************************************************************)
VARIABLES
    emergency_stop_active,  \* RiskManager.emergency_stop_active
    daily_pnl,              \* RiskManager.daily_pnl
    max_drawdown_current,   \* RiskManager.max_drawdown_current, [num, den]
    portfolio_peak,         \* RiskManager.portfolio_peak
    risk_events,            \* the risk_events table: RiskEvents committed
    ready,                  \* event loop: check tasks scheduled and not yet run
    parsed,                 \* process_message: the signal parse_message returned
    orders,                 \* signals handed to ZerodhaTrader.execute_signal
    last,                   \* the operation that completed last
    trader,                 \* ZerodhaTrader: connection, trading flags, last place_order
    agent,                  \* TradingAgentIntegration: processing_stats, calls in progress
    collector,              \* TelegramCollector: the Redis list, get_pending_messages
    pipeline                \* main.py: app_state["running"], the loop's batch

vars == <<emergency_stop_active, daily_pnl, max_drawdown_current, portfolio_peak,
          risk_events, ready, parsed, orders, last, trader, agent, collector, pipeline>>

peer_vars == <<trader, agent, collector, pipeline>>

rm_vars == <<emergency_stop_active, daily_pnl, max_drawdown_current, portfolio_peak>>

Self == [emergency_stop_active |-> emergency_stop_active, daily_pnl |-> daily_pnl,
         max_drawdown_current |-> max_drawdown_current,
         portfolio_peak |-> portfolio_peak]

SetSelf(self) ==
    /\ emergency_stop_active' = self.emergency_stop_active
    /\ daily_pnl' = self.daily_pnl
    /\ max_drawdown_current' = self.max_drawdown_current
    /\ portfolio_peak' = self.portfolio_peak

NoPortfolio == [total_value |-> 0, available_margin |-> 0, positions |-> <<>>]

NoOut == [raised |-> FALSE, exc |-> "", results |-> <<>>, ran |-> {}, scheduled |-> <<>>]

\* what `last` records of an operation: its arguments, the emergency flag and
\* the peak it found, and how it ended (current_drawdown: the local of that
\* name in check_drawdown_limit, when that check was the operation; db: what
\* the ledger query answered, when check_daily_loss_limit was the operation)
Done(op, signal, portfolio, out) ==
    [op |-> op, signal |-> signal, portfolio |-> portfolio,
     stopped |-> emergency_stop_active, peak |-> portfolio_peak,
     raised |-> out.raised, exc |-> out.exc, results |-> out.results,
     ran |-> out.ran, nscheduled |-> Len(out.scheduled),
     approved |-> should_execute(out),
     current_drawdown |-> [num |-> 0, den |-> 1],
     db |-> [ok |-> TRUE, pnl |-> 0]]

\* ZerodhaTrader.__init__ and the settings' defaults
TraderInit ==
    [is_connected |-> FALSE, enable_paper_trading |-> TRUE, enable_live_trading |-> FALSE,
     order_id |-> None, kite_called |-> FALSE]

\* TradingAgentIntegration.__init__ (and reset_stats): every counter at zero
StatsInit ==
    [messages_processed |-> 0, actions_executed |-> 0, successful_orders |-> 0,
     risk_blocks |-> 0, errors |-> 0]

AgentInit ==
    [processing_stats |-> StatsInit, calls |-> [c \in 1..MaxCalls |-> "new"]]

NoCall == [active |-> FALSE, caller |-> "", limit |-> 0, remaining |-> 0, messages |-> <<>>]

\* TelegramCollector.__init__ and an empty Redis list "message_queue"
\* (arrived: Telegram messages seen so far; returned, delivered: what
\* get_pending_messages returned last and over time)
CollectorInit ==
    [redis |-> <<>>, message_queue |-> <<>>, arrived |-> 0, call |-> NoCall,
     returned |-> [limit |-> 0, messages |-> <<>>], delivered |-> <<>>]

\* app_state after startup, message_processing_loop about to start
PipelineInit ==
    [running |-> TRUE, messages |-> <<>>, processed |-> <<>>]

PeersInit ==
    /\ trader = TraderInit
    /\ agent = AgentInit
    /\ collector = CollectorInit
    /\ pipeline = PipelineInit

\* RiskManager.__init__ and the module state of main.py after startup
Init ==
    /\ emergency_stop_active = FALSE
    /\ daily_pnl = 0
    /\ max_drawdown_current = [num |-> 0, den |-> 1]
    /\ portfolio_peak = 0
    /\ risk_events = <<>>
    /\ ready = <<>>
    /\ parsed = NoSignal
    /\ orders = <<>>
    /\ last = Done("init", NoSignal, NoPortfolio, NoOut)
    /\ PeersInit

\* the event store takes the events, or the commit fails
Store(events, store_ok) ==
    IF store_ok /\ Len(risk_events) + Len(events) <= MaxEvents
    THEN risk_events \o events ELSE risk_events

\* a coroutine object holds the arguments it was created with (lines 77-81)
Task(kind, signal, portfolio) ==
    [kind |-> kind,
     signal |-> IF kind \in {"position_size", "margin"} THEN signal ELSE NoSignal,
     portfolio |-> IF kind \in {"drawdown", "margin"} THEN portfolio ELSE NoPortfolio]

Tasks(kinds, signal, portfolio) ==
    [i \in DOMAIN kinds |-> Task(kinds[i], signal, portfolio)]

\* the answers a validate_trade call can tell apart: it consults the ledger,
\* the clock and the event store only once gather has returned
EnvsOfCall(signal, portfolio) ==
    IF signal.symbol.k # "missing" /\ ~gather(checks_list(signal, portfolio)).raised
    THEN Envs ELSE {Env0}

\* a call of RiskManager.validate_trade from outside the message pipeline
ValidateTradeCall ==
    \E signal \in Signals, portfolio \in Portfolios :
      \E env \in EnvsOfCall(signal, portfolio) :
        LET out == validate_trade(signal, portfolio, Self, env)
        IN /\ Len(ready) <= 5 * (MaxInFlight - 1)
           /\ SetSelf(out.self)
           /\ ready' = ready \o Tasks(out.scheduled, signal, portfolio)
           /\ risk_events' = Store(out.events, TRUE)
           /\ last' = Done("validate_trade", signal, portfolio, out)
           /\ UNCHANGED <<parsed, orders, peer_vars>>

\* the event loop runs the next scheduled check task (line 88 left it there)
RunTask ==
    /\ ready # <<>>
    /\ \E env \in EnvsOf(Head(ready).kind) :
        /\ \E task \in {Head(ready)} :
           \E r \in {run_check(task.kind, task.signal, task.portfolio, Self, env)} :
              /\ SetSelf(r.self)
              /\ last' = Done("task", task.signal, task.portfolio,
                              [NoOut EXCEPT !.results = <<r.result>>, !.ran = {task.kind}])
        /\ ready' = Tail(ready)
        /\ UNCHANGED <<risk_events, parsed, orders, peer_vars>>

\* RiskManager.emergency_stop, reached through POST /emergency-stop
\* variant: a second call switches the stop off again
emergency_stop_toggle ==
    \E store_ok \in BOOLEAN :
        /\ emergency_stop_active' = ~emergency_stop_active
        /\ risk_events' = Store(<<[event_type |-> "EMERGENCY_STOP", severity |-> "CRITICAL",
                                   resolved |-> FALSE]>>, store_ok)
        /\ last' = Done("emergency_stop", NoSignal, NoPortfolio, NoOut)
        /\ UNCHANGED <<daily_pnl, max_drawdown_current, portfolio_peak, ready, parsed, orders, peer_vars>>

\* variant: the flag is set after the event has been written
emergency_stop_flag_last ==
    \E store_ok \in BOOLEAN :
        /\ emergency_stop_active' = (emergency_stop_active \/ store_ok)
        /\ risk_events' = Store(<<[event_type |-> "EMERGENCY_STOP", severity |-> "CRITICAL",
                                   resolved |-> FALSE]>>, store_ok)
        /\ last' = Done("emergency_stop", NoSignal, NoPortfolio, NoOut)
        /\ UNCHANGED <<daily_pnl, max_drawdown_current, portfolio_peak, ready, parsed, orders, peer_vars>>

emergency_stop ==
    \E store_ok \in BOOLEAN :
        /\ emergency_stop_active' = TRUE
        /\ risk_events' = Store(<<[event_type |-> "EMERGENCY_STOP", severity |-> "CRITICAL",
                                   resolved |-> FALSE]>>, store_ok)
        /\ last' = Done("emergency_stop", NoSignal, NoPortfolio, NoOut)
        /\ UNCHANGED <<daily_pnl, max_drawdown_current, portfolio_peak, ready, parsed, orders, peer_vars>>

reset_emergency_stop ==
    /\ emergency_stop_active' = FALSE
    /\ last' = Done("reset_emergency_stop", NoSignal, NoPortfolio, NoOut)
    /\ UNCHANGED <<daily_pnl, max_drawdown_current, portfolio_peak, risk_events, ready,
                   parsed, orders, peer_vars>>

\* process_message lines 136-146: the message is parsed; no signal ends it
ParseMessage ==
    \E primary \in ModelAnswers, fallback \in ModelAnswers :
        /\ parsed = NoSignal
        /\ parsed' = parse_message(<<primary, fallback>>)
        /\ last' = Done("parse_message", parsed', NoPortfolio, NoOut)
        /\ UNCHANGED <<rm_vars, risk_events, ready, orders, peer_vars>>

\* process_message lines 150-174: portfolio, validation, decision, execution
process_message ==
    \E portfolio \in Portfolios :
      \E env \in EnvsOfCall(parsed, portfolio) :
        /\ parsed # NoSignal
        /\ Len(ready) <= 5 * (MaxInFlight - 1)
        /\ Len(orders) < MaxOrders
        /\ LET out == validate_trade(parsed, portfolio, Self, env)
           IN /\ SetSelf(out.self)
              /\ ready' = ready \o Tasks(out.scheduled, parsed, portfolio)
              /\ risk_events' = Store(out.events, TRUE)
              /\ orders' = IF should_execute(out) THEN Append(orders, parsed) ELSE orders
              /\ last' = Done("process_message", parsed, portfolio, out)
        /\ parsed' = NoSignal
        /\ UNCHANGED peer_vars

\* the application of main.py: the message pipeline, the event loop and the
\* emergency-stop endpoint
Next ==
    \/ ParseMessage
    \/ process_message
    \/ RunTask
    \/ emergency_stop
    \/ reset_emergency_stop

Spec == Init /\ [][Next]_vars

\* the RiskManager called directly (TradingAgentIntegration, tests)
NextEngine ==
    \/ ValidateTradeCall
    \/ RunTask
    \/ emergency_stop
    \/ reset_emergency_stop

SpecEngine == Init /\ [][NextEngine]_vars

(***************************************************************************)
(* Several validate_trade calls on one RiskManager before the event loop   *)
(* has run the checks they scheduled (callers that do not wait for each    *)
(* other, or one caller calling again at once).                            *)
(***************************************************************************)
ConcurrentSignals == {Signal(Str("TCS"), Num(1000), Num(50))}

ValidateTradeConcurrent ==
    \E signal \in ConcurrentSignals, portfolio \in Portfolios :
      \E env \in EnvsOfCall(signal, portfolio) :
        LET out == validate_trade(signal, portfolio, Self, env)
        IN /\ Len(ready) <= 5 * (MaxConcurrent - 1)
           /\ SetSelf(out.self)
           /\ ready' = ready \o Tasks(out.scheduled, signal, portfolio)
           /\ risk_events' = Store(out.events, TRUE)
           /\ last' = Done("validate_trade", signal, portfolio, out)
           /\ UNCHANGED <<parsed, orders, peer_vars>>

NextConcurrent ==
    \/ ValidateTradeConcurrent
    \/ RunTask

SpecConcurrent == Init /\ [][NextConcurrent]_vars

(***************************************************************************)
(* The checks and the decision rule called on their own, on inputs drawn   *)
(* at the start.                                                           *)
(***************************************************************************)
CheckSignals ==
    {Signal(sy, q, p) :
        sy \in {Str("TCS"), Missing},
        q \in {Num(1), Num(1000)},
        p \in {Missing, None, Num(0), Num(50), Num(100), Num(150)}}

\* portfolios handed to check_drawdown_limit on its own
DrawdownPortfolios ==
    {[total_value |-> v, available_margin |-> 60000, positions |-> <<>>] :
        v \in {0, 80000, 85000, 100000}}

\* signals and portfolios handed to check_margin_requirements on its own
MarginSignals ==
    {[Signal(Str("TCS"), Num(1000), p) EXCEPT !.instrument_type = it] :
        p \in {None, Num(50), Num(60), Num(61), Num(400), Num(401)},
        it \in {Str("EQUITY"), Str("FUTURES"), Str("OPTIONS")}}

MarginPortfolios ==
    {[total_value |-> 100000, available_margin |-> m, positions |-> <<>>] :
        m \in {50000, 60000}}

\* portfolios handed to check_correlation_risk on its own (TCS and INFY are
\* both in the IT sector, RELIANCE is not)
CorrelationPortfolios ==
    {[total_value |-> v, available_margin |-> 60000, positions |-> ps] :
        v \in {0, 100000},
        ps \in {<<>>, <<[symbol |-> "INFY", value |-> 30000]>>,
                <<[symbol |-> "INFY", value |-> 31000]>>,
                <<[symbol |-> "RELIANCE", value |-> 40000],
                  [symbol |-> "INFY", value |-> 20000]>>}}

\* answers of the ledger query handed to check_daily_loss_limit on its own
LedgerAnswers ==
    {[ok |-> FALSE, pnl |-> 0]} \cup
    {[ok |-> TRUE, pnl |-> x] : x \in {-6000, -5000, -3000, 0, 7000}}

ResultTemplates ==
    {RiskCheckResult(passed, "POSITION_SIZE_LIMIT", "", severity) :
        passed \in BOOLEAN, severity \in Severities}

ResultLists ==
    UNION {[1..n -> ResultTemplates] : n \in 0..MaxResults}

Input(signal, portfolio, results) ==
    Done("input", signal, portfolio, [NoOut EXCEPT !.results = results])

InitChecks ==
    /\ emergency_stop_active = FALSE
    /\ daily_pnl = 0
    /\ max_drawdown_current = [num |-> 0, den |-> 1]
    /\ portfolio_peak = 0
    /\ risk_events = <<>>
    /\ ready = <<>>
    /\ parsed = NoSignal
    /\ orders = <<>>
    /\ last \in {Input(s, NoPortfolio, <<>>) : s \in CheckSignals}
                \cup {Input(NoSignal, NoPortfolio, rs) : rs \in ResultLists}
                \cup {Input(s, p, <<>>) : s \in MarginSignals, p \in MarginPortfolios}
                \cup {Input(Signal(Str("TCS"), Num(1000), Num(50)), p, <<>>) :
                         p \in CorrelationPortfolios}
    /\ PeersInit

Returned(op, result) ==
    /\ last' = [last EXCEPT !.op = op, !.results = <<result>>,
                            !.approved = approved(<<result>>)]
    /\ UNCHANGED <<rm_vars, risk_events, ready, parsed, orders, peer_vars>>

CheckPositionSizeCall ==
    /\ last.op = "input"
    /\ last.signal # NoSignal
    /\ Returned("check_position_size", check_position_size(last.signal))

CheckPriceAnomaliesCall ==
    /\ last.op = "input"
    /\ last.signal # NoSignal
    /\ Returned("check_price_anomalies", check_price_anomalies(last.signal))

CheckMarginRequirementsCall ==
    /\ last.op = "input"
    /\ last.portfolio \in MarginPortfolios
    /\ Returned("check_margin_requirements",
                check_margin_requirements(last.signal, last.portfolio))

CheckCorrelationRiskCall ==
    /\ last.op = "input"
    /\ last.portfolio \in CorrelationPortfolios
    /\ Returned("check_correlation_risk",
                check_correlation_risk(last.signal, last.portfolio))

\* check_daily_loss_limit called on its own, any number of times in a row
CheckDailyLossLimitCall ==
    \E db \in LedgerAnswers :
        /\ last.signal = NoSignal
        /\ last.results = <<>> \/ last.op = "check_daily_loss_limit"
        /\ LET r == check_daily_loss_limit(db, daily_pnl)
           IN /\ daily_pnl' = r.daily_pnl
              /\ last' = [Done("check_daily_loss_limit", NoSignal, NoPortfolio,
                                [NoOut EXCEPT !.results = <<r.result>>, !.ran = {"daily_loss"}])
                            EXCEPT !.approved = approved(<<r.result>>), !.db = db]
        /\ UNCHANGED <<emergency_stop_active, max_drawdown_current, portfolio_peak,
                       risk_events, ready, parsed, orders, peer_vars>>

\* check_drawdown_limit called on its own, any number of times in a row
CheckDrawdownLimitCall ==
    \E portfolio \in DrawdownPortfolios :
        /\ last.signal = NoSignal
        /\ last.results = <<>> \/ last.op = "check_drawdown_limit"
        /\ LET r == check_drawdown_limit(portfolio, portfolio_peak, max_drawdown_current)
           IN /\ portfolio_peak' = r.portfolio_peak
              /\ max_drawdown_current' = r.max_drawdown_current
              /\ last' = [Done("check_drawdown_limit", NoSignal, portfolio,
                                [NoOut EXCEPT !.results = <<r.result>>, !.ran = {"drawdown"}])
                            EXCEPT !.approved = approved(<<r.result>>),
                                   !.current_drawdown = r.current_drawdown]
        /\ UNCHANGED <<emergency_stop_active, daily_pnl, risk_events, ready, parsed, orders, peer_vars>>

\* main.py lines 157-162 applied to a result list
DecisionCall ==
    /\ last.op = "input"
    /\ last.signal = NoSignal
    /\ last' = [last EXCEPT !.op = "decision", !.approved = approved(last.results)]
    /\ UNCHANGED <<rm_vars, risk_events, ready, parsed, orders, peer_vars>>

\* ZerodhaTrader.place_order called on its own; the connection state and the
\* two trading flags are whatever connect() and the configuration left
PlaceOrderCall ==
    \E is_connected \in BOOLEAN, enable_paper_trading \in BOOLEAN,
       enable_live_trading \in BOOLEAN, kite_ok \in BOOLEAN :
        /\ last.signal = NoSignal
        /\ last.results = <<>>
        /\ LET r == place_order(is_connected, enable_paper_trading, enable_live_trading,
                                kite_ok)
           IN trader' = [is_connected |-> is_connected,
                         enable_paper_trading |-> enable_paper_trading,
                         enable_live_trading |-> enable_live_trading,
                         order_id |-> r.order_id, kite_called |-> r.kite_called]
        /\ last' = Done("place_order", NoSignal, NoPortfolio, NoOut)
        /\ UNCHANGED <<rm_vars, risk_events, ready, parsed, orders, agent, collector,
                       pipeline>>

NextChecks ==
    \/ CheckPositionSizeCall
    \/ CheckPriceAnomaliesCall
    \/ CheckDrawdownLimitCall
    \/ CheckDailyLossLimitCall
    \/ CheckMarginRequirementsCall
    \/ CheckCorrelationRiskCall
    \/ DecisionCall
    \/ PlaceOrderCall

SpecChecks == InitChecks /\ [][NextChecks]_vars

(***************************************************************************)
(* TradingAgentIntegration: process_telegram_message calls that overlap on *)
(* the event loop (each runs from one await to the next) and reset_stats.  *)
(***************************************************************************)
Count(key) ==
    [agent EXCEPT !.processing_stats[key] = @ + 1]

\* lines 58-76: the call counts the message and waits for the analysis
ProcessTelegramMessageStart ==
    \E c \in 1..MaxCalls :
        /\ agent.calls[c] = "new"
        /\ agent' = [Count("messages_processed") EXCEPT !.calls[c] = "analyze"]
        /\ UNCHANGED <<rm_vars, risk_events, ready, parsed, orders, last, trader,
                       collector, pipeline>>

\* lines 76-102: the analysis is there (or analyze_message raised), the risk
\* is assessed, and the action is counted as executed or as blocked
ProcessTelegramMessageAssess ==
    \E c \in 1..MaxCalls, analyzed \in BOOLEAN, analysis \in AgentAnalyses,
       positions \in {"found", "not_found", "failed", "raised"},
       signal \in ConcurrentSignals, portfolio \in Portfolios :
        /\ agent.calls[c] = "analyze"
        /\ agent' =
             IF ~analyzed
             THEN [Count("errors") EXCEPT !.calls[c] = "done"]
             ELSE IF _assess_risk(analysis, positions, signal, portfolio)
                     /\ analysis.confidence >= agent_confidence
             THEN [Count("actions_executed") EXCEPT !.calls[c] = "execute"]
             ELSE IF ~_assess_risk(analysis, positions, signal, portfolio)
             THEN [Count("risk_blocks") EXCEPT !.calls[c] = "done"]
             ELSE [agent EXCEPT !.calls[c] = "done"]
        /\ UNCHANGED <<rm_vars, risk_events, ready, parsed, orders, last, trader,
                       collector, pipeline>>

\* lines 87-91 and 124-126: execute_action has answered, or raised
ProcessTelegramMessageExecuted ==
    \E c \in 1..MaxCalls, execution \in {"success", "failure", "raised"} :
        /\ agent.calls[c] = "execute"
        /\ agent' =
             IF execution = "success"
             THEN [Count("successful_orders") EXCEPT !.calls[c] = "done"]
             ELSE IF execution = "raised"
             THEN [Count("errors") EXCEPT !.calls[c] = "done"]
             ELSE [agent EXCEPT !.calls[c] = "done"]
        /\ UNCHANGED <<rm_vars, risk_events, ready, parsed, orders, last, trader,
                       collector, pipeline>>

\* lines 353-362: the counters are replaced by a dictionary of zeros
reset_stats ==
    /\ agent' = [agent EXCEPT !.processing_stats = StatsInit]
    /\ UNCHANGED <<rm_vars, risk_events, ready, parsed, orders, last, trader,
                   collector, pipeline>>

NextAgent ==
    \/ ProcessTelegramMessageStart
    \/ ProcessTelegramMessageAssess
    \/ ProcessTelegramMessageExecuted
    \/ reset_stats

SpecAgent == Init /\ [][NextAgent]_vars

(***************************************************************************)
(* TelegramCollector: messages are queued as they arrive, and              *)
(* get_pending_messages runs from one Redis answer to the next.            *)
(***************************************************************************)
\* handle_new_message -> _queue_message (lines 200-216); without a Redis
\* client, or when LPUSH raises, the message is in neither queue
QueueMessage ==
    \E redis_ok \in BOOLEAN :
        /\ collector.arrived < MaxMessages
        /\ LET message_data == MessageData(collector.arrived + 1)
           IN collector' =
                IF redis_ok
                THEN [collector EXCEPT
                        !.arrived = @ + 1,
                        !.redis = lpush(@, json_dumps(message_data)),
                        !.message_queue = Append(@, message_data)]
                ELSE [collector EXCEPT !.arrived = @ + 1]
        /\ UNCHANGED <<rm_vars, risk_events, ready, parsed, orders, last, trader, agent,
                       pipeline>>

\* get_pending_messages lines 346-349: LLEN has answered, the range is fixed
GetPendingStart(caller, limit) ==
    /\ collector' = [collector EXCEPT
                        !.call = [active |-> TRUE, caller |-> caller, limit |-> limit,
                                  remaining |-> Min(limit, Len(collector.redis)),
                                  messages |-> <<>>]]
    /\ UNCHANGED <<rm_vars, risk_events, ready, parsed, orders, last, trader, agent,
                   pipeline>>

\* a get_pending_messages call from outside the loop
GetPendingMessagesCall ==
    \E limit \in PendingLimits :
        /\ ~collector.call.active
        /\ GetPendingStart("direct", limit)

\* lines 350-352: one RPOP, and the message it returned is decoded
GetPendingPop ==
    /\ collector.call.active
    /\ collector.call.remaining > 0
    /\ LET r == rpop(collector.redis)
       IN collector' = [collector EXCEPT
                          !.redis = r.rest,
                          !.call.remaining = @ - 1,
                          !.call.messages = IF r.value = None THEN @
                                            ELSE Append(@, json_loads(r.value))]
    /\ UNCHANGED <<rm_vars, risk_events, ready, parsed, orders, last, trader, agent,
                   pipeline>>

\* line 354: the call returns its list (to the loop: line 120 binds it)
GetPendingReturn ==
    /\ collector.call.active
    /\ collector.call.remaining = 0
    /\ collector' = [collector EXCEPT
                        !.call = NoCall,
                        !.returned = [limit |-> collector.call.limit,
                                      messages |-> collector.call.messages],
                        !.delivered = @ \o collector.call.messages]
    /\ pipeline' = IF collector.call.caller = "loop"
                   THEN [pipeline EXCEPT !.messages = collector.call.messages]
                   ELSE pipeline
    /\ UNCHANGED <<rm_vars, risk_events, ready, parsed, orders, last, trader, agent>>

\* Redis raises during the call: the exception leaves get_pending_messages
\* and the messages already popped go with it
GetPendingRaise ==
    /\ collector.call.active
    /\ collector' = [collector EXCEPT !.call = NoCall]
    /\ UNCHANGED <<rm_vars, risk_events, ready, parsed, orders, last, trader, agent,
                   pipeline>>

NextCollector ==
    \/ QueueMessage
    \/ GetPendingMessagesCall
    \/ GetPendingPop
    \/ GetPendingReturn
    \/ GetPendingRaise

SpecCollector == Init /\ [][NextCollector]_vars

(***************************************************************************)
(* message_processing_loop (main.py 112-130): the loop fetches a batch     *)
(* while the application is running and processes its messages in turn;   *)
(* Redis and the language models answer every call.                       *)
(***************************************************************************)
LoopAnswers == {NoSignal, Answer("BUY", Num(50), 90)}

LoopPortfolios == {[total_value |-> 100000, available_margin |-> 60000, positions |-> <<>>]}

\* lines 116-120: the while condition holds and the batch is asked for
LoopGetPending ==
    /\ pipeline.running
    /\ pipeline.messages = <<>>
    /\ ~collector.call.active
    /\ GetPendingStart("loop", loop_limit)

\* lines 122-123 with process_message (133-174) for the next message of the
\* batch: parse, validate, decide, execute
LoopProcessMessage ==
    \E primary \in LoopAnswers, fallback \in LoopAnswers, portfolio \in LoopPortfolios :
      \E signal \in {parse_message(<<primary, fallback>>)} :
        /\ pipeline.messages # <<>>
        /\ Len(ready) <= 5 * (MaxInFlight - 1)
        /\ UNCHANGED <<parsed, trader, agent, collector>>
        /\ IF signal = NoSignal
           THEN /\ pipeline' = [pipeline EXCEPT
                                  !.messages = Tail(@),
                                  !.processed =
                                      Append(@, [message_id |-> Head(pipeline.messages).message_id,
                                                 outcome |-> "no_signal"])]
                /\ last' = Done("process_message", NoSignal, NoPortfolio, NoOut)
                /\ UNCHANGED <<rm_vars, risk_events, ready, orders>>
           ELSE \E env \in EnvsOfCall(signal, portfolio) :
                  \E out \in {validate_trade(signal, portfolio, Self, env)} :
                     /\ pipeline' = [pipeline EXCEPT
                                       !.messages = IF process_message_returns(out)
                                                    THEN Tail(@) ELSE <<>>,
                                       !.processed =
                                           Append(@, [message_id |->
                                                        Head(pipeline.messages).message_id,
                                                      outcome |->
                                                        process_message_outcome(signal, out)])]
                     /\ SetSelf(out.self)
                     /\ ready' = ready \o Tasks(out.scheduled, signal, portfolio)
                     /\ risk_events' = Store(out.events, TRUE)
                     /\ orders' = IF should_execute(out) THEN Append(orders, signal)
                                  ELSE orders
                     /\ last' = Done("process_message", signal, portfolio, out)

\* lifespan line 83: the application shuts down
Shutdown ==
    /\ pipeline.running
    /\ pipeline' = [pipeline EXCEPT !.running = FALSE]
    /\ UNCHANGED <<rm_vars, risk_events, ready, parsed, orders, last, trader, agent,
                   collector>>

NextLoop ==
    \/ QueueMessage
    \/ LoopGetPending
    \/ GetPendingPop
    \/ GetPendingReturn
    \/ LoopProcessMessage
    \/ RunTask
    \/ Shutdown

\* the event loop runs every task that is ready, and Redis, the language
\* models and the sleep of line 126 all come back
SpecLoop ==
    /\ Init
    /\ [][NextLoop]_vars
    /\ WF_vars(LoopGetPending)
    /\ WF_vars(GetPendingPop)
    /\ WF_vars(GetPendingReturn)
    /\ WF_vars(LoopProcessMessage)
    /\ WF_vars(RunTask)

(***************************************************************************)
(* Properties                                                              *)
(***************************************************************************)
Max(a, b) == IF a >= b THEN a ELSE b

Blocking(results) ==
    \E i \in DOMAIN results :
        ~results[i].passed /\ results[i].severity \in {"HIGH", "CRITICAL"}

\* a well-formed signal: a symbol and a positive quantity
WellFormed(signal) ==
    /\ signal.symbol.k = "str" /\ signal.symbol.s # ""
    /\ signal.quantity.k = "num" /\ signal.quantity.n > 0

\* C1: a validate_trade call made while the emergency stop is active returns
\* exactly one result, failed and CRITICAL, and runs or schedules no check
\* (stated for the well-formed signals among all signals).
C1_EmergencyStopOverride ==
    (last.op = "validate_trade" /\ last.stopped /\ WellFormed(last.signal)) =>
        /\ ~last.raised
        /\ Len(last.results) = 1
        /\ ~last.results[1].passed
        /\ last.results[1].severity = "CRITICAL"
        /\ last.ran = {}
        /\ last.nscheduled = 0

\* C2: the decision on a result list is "approved" exactly when no result is
\* failed with severity HIGH or CRITICAL; failed LOW or MEDIUM results alone
\* do not block.
C2_DecisionRule ==
    last.op = "decision" => (last.approved <=> ~Blocking(last.results))

C2_Witness ==
    /\ last.op = "decision"
    /\ last.approved
    /\ \E i \in DOMAIN last.results :
          ~last.results[i].passed /\ last.results[i].severity = "MEDIUM"

\* C3: process_message hands a signal to execute_signal only in a step in
\* which validate_trade returned for it and no result was failed HIGH or
\* CRITICAL; nothing else adds an order.
C3_ExecuteOnlyApproved ==
    [][orders' # orders =>
          /\ last'.op = "process_message"
          /\ ~last'.raised
          /\ ~Blocking(last'.results)
          /\ orders' = Append(orders, last'.signal)]_vars

C3_Witness ==
    /\ last.op = "process_message"
    /\ last.raised
    /\ orders = <<>>

\* C4: no step taken while the emergency stop is active submits an order.
C4_StopBlocksTrades ==
    [][emergency_stop_active => orders' = orders]_vars

C4_Witness ==
    /\ emergency_stop_active
    /\ last.op = "process_message"
    /\ last.stopped
    /\ last.signal.signal_type = "BUY"
    /\ orders = <<>>

\* C5: with the emergency stop inactive, validate_trade returns a result
\* list for every well-formed signal and every portfolio; it does not raise.
C5_ValidateNeverRaises ==
    (last.op = "validate_trade" /\ ~last.stopped /\ WellFormed(last.signal)) =>
        /\ ~last.raised
        /\ last.results # <<>>

\* C6: a check that failed to execute is reported failed with severity HIGH.
C6_FailClosed ==
    last.op \in {"validate_trade", "task"} =>
        \A i \in DOMAIN last.results :
            last.results[i].message = "check error" =>
                ~last.results[i].passed /\ last.results[i].severity = "HIGH"

\* C7: a call of emergency_stop leaves the flag true, whatever it was, and
\* the flag goes from true to false only in a reset_emergency_stop step.
C7_Latch ==
    [][/\ last'.op = "emergency_stop" => emergency_stop_active'
       /\ (emergency_stop_active /\ ~emergency_stop_active') =>
              last'.op = "reset_emergency_stop"]_vars

C7_Witness ==
    /\ emergency_stop_active
    /\ last.op = "emergency_stop"
    /\ last.stopped

\* C8: for a signal without an entry price (key missing, or None) both
\* check_position_size and check_price_anomalies return passed = true.
C8_VacuousPass ==
    (/\ last.op \in {"check_position_size", "check_price_anomalies"}
     /\ last.signal.entry_price.k \in {"missing", "none"}) =>
        last.results[1].passed

\* C9: check_position_size passes when quantity * entry_price is at most
\* max_position_size and fails with severity HIGH, blocking the trade, when
\* it is larger.
C9_PositionSizeRule ==
    (/\ last.op = "check_position_size"
     /\ last.signal.quantity.k = "num"
     /\ last.signal.entry_price.k = "num") =>
        LET notional == last.signal.quantity.n * last.signal.entry_price.n
            r == last.results[1]
        IN /\ notional <= max_position_size => r.passed
           /\ notional > max_position_size =>
                 ~r.passed /\ r.severity = "HIGH" /\ ~last.approved

C9_Witness ==
    /\ last.op = "check_position_size"
    /\ last.signal.quantity.k = "num"
    /\ last.signal.entry_price.k = "num"
    /\ last.signal.quantity.n * last.signal.entry_price.n = max_position_size
    /\ last.results[1].passed

\* C10: a drawdown check leaves portfolio_peak at the larger of its previous
\* value and the portfolio's total_value; no other step changes it.
C10_PeakMonotone ==
    [][/\ portfolio_peak' >= portfolio_peak
       /\ "drawdown" \in last'.ran =>
              portfolio_peak' = Max(portfolio_peak, last'.portfolio.total_value)
       /\ "drawdown" \notin last'.ran => portfolio_peak' = portfolio_peak]_vars

C10_Witness ==
    /\ last.op = "task"
    /\ "drawdown" \in last.ran
    /\ last.portfolio.total_value < last.peak
    /\ portfolio_peak = last.peak

\* C11: the drawdown check_drawdown_limit computes for a total_value >= 0 is
\* (portfolio_peak - total_value) / portfolio_peak for the peak the check
\* leaves behind, lies between 0 and 1, and is 0 when that peak is 0.
C11_DrawdownRange ==
    last.op = "check_drawdown_limit" =>
        LET d == last.current_drawdown
            tv == last.portfolio.total_value
        IN /\ d.den > 0
           /\ 0 <= d.num /\ d.num <= d.den
           /\ portfolio_peak > 0 =>
                 d = [num |-> portfolio_peak - tv, den |-> portfolio_peak]
           /\ portfolio_peak = 0 => d.num = 0

C11_Witness ==
    /\ last.op = "check_drawdown_limit"
    /\ portfolio_peak = 0
    /\ last.current_drawdown.num = 0
    /\ last.results[1].passed

\* C12: check_drawdown_limit fails, with severity CRITICAL, exactly when the
\* drawdown is larger than max_drawdown; a drawdown equal to the limit
\* passes, and a failed drawdown check leaves the trade not approved.
C12_DrawdownBlock ==
    last.op = "check_drawdown_limit" =>
        LET d == last.current_drawdown
            r == last.results[1]
        IN /\ ~r.passed <=> d.num * 100 > max_drawdown * d.den
           /\ ~r.passed => r.severity = "CRITICAL" /\ ~last.approved

C12_Witness ==
    /\ last.op = "check_drawdown_limit"
    /\ last.peak = 100000
    /\ last.portfolio.total_value = 80000
    /\ ~last.results[1].passed
    /\ last.results[1].severity = "CRITICAL"
    /\ ~last.approved

\* C13: two validate_trade calls in a row with the same signal and the same
\* portfolio, no emergency stop, the ledger and the clock unchanged, both
\* return a decision, and the two decisions have the same approved value.
C13_IdempotentDecision ==
    [][(/\ last.op = "validate_trade" /\ last'.op = "validate_trade"
        /\ last'.signal = last.signal /\ last'.portfolio = last.portfolio
        /\ ~last.stopped /\ ~last'.stopped) =>
          /\ ~last.raised /\ ~last'.raised
          /\ last'.approved = last.approved]_vars

\* the peak that is due: the largest of portfolio_peak and the total_value
\* of every drawdown check scheduled and not yet run
PeakDue ==
    LET S == {portfolio_peak} \cup
             {ready[i].portfolio.total_value :
                 i \in {j \in DOMAIN ready : ready[j].kind = "drawdown"}}
    IN CHOOSE x \in S : \A y \in S : x >= y

\* C17: a validate_trade call raises the peak that is due to at least the
\* total_value it was given, and running a check never lowers it or loses
\* it: once no drawdown check is outstanding, portfolio_peak is the largest
\* of its initial value and every total_value given.
C17_NoLostPeakUpdate ==
    [][PeakDue' = IF last'.op = "validate_trade"
                  THEN Max(PeakDue, last'.portfolio.total_value)
                  ELSE PeakDue]_vars

C17_Witness ==
    /\ Len(ready) = 7
    /\ last.op = "task" /\ "drawdown" \in last.ran
    /\ portfolio_peak = last.portfolio.total_value
    /\ ready[5].kind = "drawdown"
    /\ ready[5].portfolio.total_value < portfolio_peak

\* the kinds of result the eight checks return
EightKinds ==
    {"POSITION_SIZE_LIMIT", "DAILY_LOSS_LIMIT", "DRAWDOWN_LIMIT", "MARGIN_REQUIREMENT",
     "MARKET_HOURS", "CIRCUIT_BREAKER", "CORRELATION_RISK", "PRICE_ANOMALY"}

\* C14: with the emergency stop inactive, a validate_trade call ends with
\* all eight checks run, none left scheduled, and a result list holding
\* exactly one result of each of the eight kinds.
C14_FanInComplete ==
    (last.op = "validate_trade" /\ ~last.stopped /\ WellFormed(last.signal)) =>
        /\ last.nscheduled = 0
        /\ Cardinality(last.ran) = 8
        /\ Len(last.results) = 8
        /\ {last.results[i].risk_type : i \in DOMAIN last.results} = EightKinds

\* C15: a step in which checks of a validate_trade call return results adds
\* to the event store exactly one RiskEvent for every failed result among
\* them, in order, and nothing else.
C15_OneEventPerFailure ==
    [][last'.op \in {"validate_trade", "task"} =>
          risk_events' = risk_events \o MapEvents(failed_checks(last'.results))]_vars

\* C16: a validate_trade call during which the event store is unavailable
\* raises nothing and returns the result list, hence the decision, that it
\* returns when the store works.
C16_PersistenceFailureKeepsDecision ==
    (last.op = "validate_trade" /\ ~last.stopped /\ WellFormed(last.signal)) =>
        \A db \in Dbs, now \in Clocks :
            LET down == validate_trade(last.signal, last.portfolio, Self, Env(db, now, FALSE))
                up == validate_trade(last.signal, last.portfolio, Self, Env(db, now, TRUE))
            IN /\ ~down.raised
               /\ down.results = up.results
               /\ should_execute(down) = should_execute(up)

\* C20: for a malformed signal validate_trade runs and schedules no check
\* and returns a single failed result of severity CRITICAL.
C20_MalformedRejected ==
    (last.op = "validate_trade" /\ ~last.stopped /\ ~WellFormed(last.signal)) =>
        /\ ~last.raised
        /\ last.ran = {} /\ last.nscheduled = 0
        /\ Len(last.results) = 1
        /\ ~last.results[1].passed /\ last.results[1].severity = "CRITICAL"
        /\ ~last.approved

\* C18: the signal process_message holds after parsing, and every signal it
\* passes to validate_trade, has a confidence of at least
\* min_signal_confidence; a null extraction is never passed on.
C18_ConfidenceGate ==
    /\ parsed # NoSignal => parsed.confidence_score >= min_signal_confidence
    /\ last.op = "process_message" =>
          /\ last.signal # NoSignal
          /\ last.signal.confidence_score >= min_signal_confidence

C18_Witness ==
    /\ last.op = "process_message"
    /\ last.signal.confidence_score >= min_signal_confidence
    /\ last.signal.signal_type = "BUY"
    /\ parsed = NoSignal

\* C19: every signal process_message passes to validate_trade has
\* signal_type BUY or SELL.
C19_NoHoldToEngine ==
    last.op = "process_message" => last.signal.signal_type \in {"BUY", "SELL"}

\* C21: check_correlation_risk fails, with severity MEDIUM, exactly when
\* (value of the positions in the signal's sector + quantity * entry_price)
\* / total_value is larger than 0.30; exactly 30% passes, and with a
\* total_value of 0 the check passes.
C21_SectorConcentration ==
    (/\ last.op = "check_correlation_risk"
     /\ last.signal.quantity.k = "num" /\ last.signal.entry_price.k = "num") =>
        LET r == last.results[1]
            notional == last.signal.quantity.n * last.signal.entry_price.n
            exposure == sector_exposure(last.portfolio.positions,
                                        _get_sector(last.signal.symbol.s))
            total == last.portfolio.total_value
            over == total > 0 /\ (exposure + notional) * 100 > sector_limit * total
        IN /\ ~r.passed <=> over
           /\ ~r.passed => r.severity = "MEDIUM"

\* C22: check_margin_requirements fails, with severity HIGH, exactly when
\* the required margin is larger than available_margin, the required margin
\* being quantity * entry_price, or 15% of it for FUTURES.
C22_MarginRule ==
    (/\ last.op = "check_margin_requirements"
     /\ last.signal.quantity.k = "num" /\ last.signal.entry_price.k = "num") =>
        LET r == last.results[1]
            notional == last.signal.quantity.n * last.signal.entry_price.n
            short == IF last.signal.instrument_type = Str("FUTURES")
                     THEN notional * futures_margin > last.portfolio.available_margin * 100
                     ELSE notional > last.portfolio.available_margin
        IN /\ ~r.passed <=> short
           /\ ~r.passed => r.severity = "HIGH"

C22_Witness ==
    /\ last.op = "check_margin_requirements"
    /\ last.signal.instrument_type = Str("FUTURES")
    /\ last.signal.entry_price = Num(400)
    /\ last.portfolio.available_margin = 60000
    /\ last.results[1].passed

C27_FlagBeforeEvent ==
    [][last'.op = "emergency_stop" =>
          emergency_stop_active' /\ ~last'.raised]_vars

C27_Witness ==
    /\ last.op = "emergency_stop"
    /\ ~last.stopped
    /\ emergency_stop_active
    /\ risk_events = <<>>

\* C24: a validate_trade call ends by returning eight results even when
\* some of its checks have not completed; each check that has not completed
\* by then is represented by a failed result of severity HIGH.
C24_BoundedChecks ==
    (last.op = "validate_trade" /\ ~last.stopped /\ WellFormed(last.signal)) =>
        /\ ~last.raised
        /\ Len(last.results) = 8
        /\ Cardinality({i \in DOMAIN last.results :
                           ~last.results[i].passed /\ last.results[i].severity = "HIGH"})
              >= last.nscheduled

\* C25: emergency_stop cancels no check that is already scheduled, such a
\* check still returns its result, a validate_trade call that started
\* before the stop returns its results, and a call that starts while the
\* stop is active returns the single CRITICAL result without dispatching.
C25_InFlightUnaffected ==
    [][/\ last'.op = "emergency_stop" => ready' = ready
       /\ last'.op = "task" => Len(last'.results) = 1 /\ ready' = Tail(ready)
       /\ (last'.op = "validate_trade" /\ WellFormed(last'.signal)) =>
              IF last'.stopped
              THEN /\ ~last'.raised /\ last'.nscheduled = 0
                   /\ Len(last'.results) = 1
                   /\ last'.results[1].severity = "CRITICAL"
              ELSE ~last'.raised /\ Len(last'.results) > 1]_vars

\* C28: ZerodhaTrader.place_order reaches the broker's API only when the
\* trader is connected, paper trading is disabled and live trading is
\* enabled; not connected, it returns no order id; connected with paper
\* trading enabled, it returns a simulated PAPER_ id without calling the
\* broker; connected with both flags disabled, it returns no order id.
C28_PlaceOrderGate ==
    last.op = "place_order" =>
        /\ trader.kite_called =>
              /\ trader.is_connected
              /\ ~trader.enable_paper_trading
              /\ trader.enable_live_trading
        /\ ~trader.is_connected => trader.order_id = None
        /\ (trader.is_connected /\ trader.enable_paper_trading) =>
              trader.order_id = Str("PAPER_") /\ ~trader.kite_called
        /\ (trader.is_connected /\ ~trader.enable_paper_trading
                /\ ~trader.enable_live_trading) => trader.order_id = None

C28_Witness ==
    /\ last.op = "place_order"
    /\ trader.is_connected /\ trader.enable_paper_trading /\ trader.enable_live_trading
    /\ trader.order_id = Str("PAPER_") /\ ~trader.kite_called

\* C29: in every reachable state of TradingAgentIntegration, under any
\* interleaving of overlapping process_telegram_message calls and
\* reset_stats, successful_orders <= actions_executed and
\* actions_executed + risk_blocks <= messages_processed.
C29_CountersConsistent ==
    LET stats == agent.processing_stats
    IN /\ stats.successful_orders <= stats.actions_executed
       /\ stats.actions_executed + stats.risk_blocks <= stats.messages_processed

\* C30: the hand-off is FIFO and at-most-once: the messages _queue_message
\* queued are returned by get_pending_messages in their arrival order, each
\* by at most one call, and one call returns at most `limit` messages.
C30_FifoAtMostOnce ==
    /\ \A i \in DOMAIN collector.delivered, j \in DOMAIN collector.delivered :
          i < j => collector.delivered[i].message_id < collector.delivered[j].message_id
    /\ \A i \in DOMAIN collector.delivered :
          \E j \in DOMAIN collector.message_queue :
              collector.message_queue[j].message_id = collector.delivered[i].message_id
    /\ Len(collector.returned.messages) <= collector.returned.limit

C30_Witness ==
    /\ Len(collector.delivered) >= 2
    /\ collector.returned.limit = 1
    /\ Len(collector.returned.messages) = 1
    /\ collector.redis # <<>>

\* a message is pending while it is in the Redis list or in the hands of the
\* loop, and processed once process_message has been called for it
Pending(id) ==
    \/ \E i \in DOMAIN collector.redis : collector.redis[i].text.message_id = id
    \/ \E i \in DOMAIN collector.call.messages : collector.call.messages[i].message_id = id
    \/ \E i \in DOMAIN pipeline.messages : pipeline.messages[i].message_id = id

Processed(id) ==
    \E i \in DOMAIN pipeline.processed : pipeline.processed[i].message_id = id

====
